---- MODULE Spec2Model ----
(***************************************************************************)
(* Model of the agent control loop of agentic-tutor: the bounded           *)
(* SENSE -> PLAN -> ACT -> OBSERVE -> REFLECT loop of AgentController.run  *)
(* (the refactored controller under src/agent/controllers and the older    *)
(* controller in agent/controller.py), the StepExecutor phases, the        *)
(* top-level ToolRegistry.execute_tool and the AgentLogger session store.  *)
(* SpecRegistry is the ToolRegistry of src/agent/tools used on its own,    *)
(* SpecGate the QualityGate.apply_gate retry loop of the digest generator. *)
(*                                                                         *)
(* Python dicts are modelled as functions from key strings to values, so   *)
(* that `k in d` is k \in DOMAIN d and d.get(k, default) is Get(d,k,dflt). *)
(* Nested payloads that the loop never inspects are abstracted to strings. *)
(***************************************************************************)
EXTENDS Integers, Sequences, FiniteSets, TLC

\* ------------------------------------------------------------------ bounds
MaxIterBound == 2      \* largest configured max_iterations explored
MaxResults == 1        \* largest number of items one search returns
MaxRetriesBound == 2   \* largest configured max_retries explored
MaxTimeout == 2        \* largest configured timeout, in clock ticks
MaxStep == 2           \* largest advance of the clock between two readings
MaxInsights == 2       \* largest number of insights one synthesis returns
MaxLogs == 2           \* largest number of log calls issued for one session
MaxDbResults == 11     \* largest db_results_count given to the research planner
MaxGaps == 7           \* largest number of coverage gaps given to the planner
MaxPlanReads == 3      \* largest number of PLAN phases of one run that is followed

VARIABLES
    variant,          \* which controller class runs the loop
    max_iterations,   \* config.max_iterations
    skip_approval,    \* os.environ has SKIP_WEB_SEARCH_APPROVAL = "true"
    pc,               \* position of run()
    iteration,        \* local variable iteration of run()
    context,          \* local variable context of run()
    plan,             \* local variable plan of run() (wrapped JSON value)
    result,           \* local variable result of run()
    response,         \* what the last PLAN LLM call produced
    sessions,         \* AgentLogger.sessions
    agent_result,     \* the AgentResult returned by run()
    plan_calls,       \* number of PLAN invocations so far
    plan_trace,       \* action types of the plans PLAN returned so far
    executed,         \* tools whose implementation was actually invoked
    approval_seen,    \* a needs_approval transition has been taken
    terminal_trace,   \* statuses passed to complete_session so far
    last_call,        \* the most recent execute_tool call and what it did
    escaped,          \* an exception propagated out of run()
    _tools,           \* ToolRegistry._tools: the registered names, in order
    reg_call,         \* the most recent ToolRegistry method call and what it did
    gate_pc,          \* position of QualityGate.apply_gate
    max_retries,      \* QualityGate.max_retries
    timeout_seconds,  \* QualityGate.timeout_seconds (in clock ticks)
    min_score,        \* InsightEvaluator.min_score (in hundredths)
    now,              \* datetime.now().timestamp() (in clock ticks)
    start_time,       \* parameter start_time of apply_gate
    retry_count,      \* parameter retry_count of apply_gate
    insights,         \* parameter insights of apply_gate
    scores,           \* local variable scores of apply_gate
    gate_result,      \* the tuple apply_gate returned
    evaluated,        \* the insights handed to the latest evaluate_digest call
    eval_calls,       \* number of evaluate_digest calls so far
    synth_calls,      \* number of synthesize_insights calls so far
    synth_args,       \* the arguments of the synthesize_insights calls so far
    first_call,       \* insight count and clock reading of the outermost apply_gate call
    digest,           \* the digest generate() built from the gate's answer
    eval_kind,        \* what the latest evaluate_digest call met
    issued,           \* per session id: the logger calls issued for it
    pure_call,        \* the latest call of a scoring function and its value
    ui_pc,            \* position of the approval branch of the dashboard view
    other_pc,         \* position of a run of another session, not approved
    plan_reads,       \* per session: what its PLAN phases read as the signal
    metrics_call      \* one evaluate_all call: its three metric tasks and its result

runVars == <<variant, max_iterations, skip_approval, pc, iteration, context, plan,
             result, response, sessions, agent_result, plan_calls, plan_trace,
             executed, approval_seen, terminal_trace, last_call, escaped>>

regVars == <<_tools, reg_call>>

gateVars == <<gate_pc, max_retries, timeout_seconds, min_score, now, start_time,
              retry_count, insights, scores, gate_result, evaluated, eval_calls,
              synth_calls, synth_args, first_call, digest, eval_kind>>

logVars == <<issued>>

pureVars == <<pure_call>>

apprVars == <<ui_pc, other_pc, plan_reads>>

metricVars == <<metrics_call>>

auxVars == <<logVars, pureVars, apprVars, metricVars>>

vars == <<runVars, regVars, gateVars, auxVars>>

\* ------------------------------------------------------------ dict helpers
EmptyDict == [k \in {} |-> ""]

Get(d, k, default) == IF k \in DOMAIN d THEN d[k] ELSE default

Put(d, k, v) == (k :> v) @@ d

Truthy(d) == DOMAIN d # {}

Sid == "s1"

\* --------------------------------------------------------- response parser
\* An LLM reply is a sequence of tokens: markdown fences, prose, one JSON
\* value, or garbage that json.loads rejects.
Tok(t) == [t |-> t, v |-> [kind |-> "none", d |-> EmptyDict]]

JsonTok(v) == [t |-> "json", v |-> v]

IndexOf(text, t) ==
    IF \E i \in 1..Len(text) : text[i].t = t
    THEN CHOOSE i \in 1..Len(text) :
            text[i].t = t /\ \A j \in 1..(i - 1) : text[j].t # t
    ELSE 0

\* text.split(t)[1]: what follows the first occurrence of t
AfterFirst(text, t) == SubSeq(text, IndexOf(text, t) + 1, Len(text))

\* text.split("```")[0]: what precedes the first closing fence (a "```json"
\* marker contains "```", so it closes a block as well)
IsFence(tok) == tok.t \in {"fence", "fence_json"}

BeforeFence(text) ==
    IF \E i \in 1..Len(text) : IsFence(text[i])
    THEN SubSeq(text, 1,
            (CHOOSE i \in 1..Len(text) :
                IsFence(text[i]) /\ \A j \in 1..(i - 1) : ~IsFence(text[j])) - 1)
    ELSE text

StripFences(text) ==
    IF IndexOf(text, "fence_json") # 0
    THEN BeforeFence(AfterFirst(text, "fence_json"))
    ELSE IF IndexOf(text, "fence") # 0
         THEN BeforeFence(AfterFirst(text, "fence"))
         ELSE text

\* json.loads(response_text.strip()): exactly one JSON value, nothing else
parse_json_response(text) ==
    LET body == StripFences(text)
    IN IF Len(body) = 1 /\ body[1].t = "json"
       THEN [raised |-> FALSE, value |-> body[1].v]
       ELSE [raised |-> TRUE, value |-> [kind |-> "none", d |-> EmptyDict]]

\* The shapes in which an LLM wraps a reply body
Shapes(tok) ==
    { <<tok>>,
      <<Tok("fence_json"), tok, Tok("fence")>>,
      <<Tok("prose"), Tok("fence"), tok, Tok("fence"), Tok("prose")>> }

\* ------------------------------------------------- top-level ToolRegistry
RegisteredTools ==
    {"get-user-context", "search-content", "generate-digest",
     "search-past-insights", "sync-progress", "web-search",
     "analyze-content-coverage"}

\* the one schema that carries "requires_approval": True
RequiresApproval(tool_name) == tool_name = "web-search"

\* What the implementation of a tool can do when it is invoked:
\*   ok          it returns its success payload (n items where it has items)
\*   inner_error its own try/except returns its error payload
\*   exception   it raises (bad arguments, database client failure, ...)
ToolOutcomes(tool_name) ==
    IF tool_name = "get-user-context"
    THEN {[kind |-> "ok", n |-> 0], [kind |-> "null_topics", n |-> 0],
          [kind |-> "exception", n |-> 0]}
    ELSE {[kind |-> "ok", n |-> n] : n \in 0..MaxResults}
         \cup {[kind |-> "inner_error", n |-> 0], [kind |-> "exception", n |-> 0]}

ToolPayload(tool_name, outcome) ==
    CASE tool_name = "get-user-context" ->
            [week |-> "7", difficulty |-> "intermediate",
             topics |-> IF outcome.kind = "null_topics" THEN "None" ELSE "list"]
      [] tool_name \in {"search-content", "search-past-insights"} ->
            IF outcome.kind = "inner_error"
            THEN [results |-> 0, count |-> 0, error |-> "db failure"]
            ELSE [results |-> outcome.n, count |-> outcome.n]
      [] tool_name = "web-search" ->
            IF outcome.kind = "inner_error"
            THEN [results |-> 0, count |-> 0, error |-> "search failure",
                  message |-> "Web search failed"]
            ELSE [results |-> outcome.n, count |-> outcome.n,
                  source_api |-> "tavily", citations |-> "list",
                  search_metadata |-> "meta", message |-> "found"]
      [] tool_name = "generate-digest" ->
            IF outcome.kind = "inner_error" \/ outcome.n = 0
            THEN [success |-> "False", insights |-> 0, error |-> "no insights",
                  ragas_scores |-> "{}", num_insights |-> 0]
            ELSE [success |-> "True", insights |-> outcome.n,
                  ragas_scores |-> "scores", quality_badge |-> "badge",
                  metadata |-> "meta", num_insights |-> outcome.n]
      [] tool_name = "sync-progress" ->
            IF outcome.kind = "inner_error"
            THEN [error |-> "sync failure"]
            ELSE [current_week |-> "7", current_topics |-> "list",
                  message |-> "synced"]
      [] OTHER ->
            IF outcome.kind = "inner_error"
            THEN [error |-> "analysis failure", db_results_count |-> 0,
                  needs_web_search |-> "True"]
            ELSE [db_results_count |-> outcome.n, topics_covered |-> "list",
                  coverage_gaps |-> "list", existing_sources |-> "list",
                  needs_web_search |-> "True", confidence_score |-> "0.4",
                  message |-> "analyzed"]

\* execute_tool without its try/except: an exception of the implementation
\* propagates
execute_tool_no_try(tool_name, outcome) ==
    IF tool_name \notin RegisteredTools
    THEN [raised |-> TRUE, invoked |-> FALSE, value |-> EmptyDict,
          available |-> RegisteredTools]
    ELSE IF outcome.kind = "exception"
         THEN [raised |-> TRUE, invoked |-> TRUE, value |-> EmptyDict,
               available |-> {}]
         ELSE [raised |-> FALSE, invoked |-> TRUE,
               value |-> ToolPayload(tool_name, outcome), available |-> {}]

\* execute_tool(tool_name, args): raised = the call raised ValueError;
\* invoked = the implementation of the tool was entered; available = the
\* tool names listed in the message of the ValueError.
execute_tool(tool_name, outcome) ==
    IF tool_name \notin RegisteredTools
    THEN [raised |-> TRUE, invoked |-> FALSE, value |-> EmptyDict,
          available |-> RegisteredTools]
    ELSE IF outcome.kind = "exception"
         THEN [raised |-> FALSE, invoked |-> TRUE,
               value |-> [error |-> "exception text", tool |-> tool_name],
               available |-> {}]
         ELSE [raised |-> FALSE, invoked |-> TRUE,
               value |-> ToolPayload(tool_name, outcome), available |-> {}]

NoCall == [tool |-> "none", outcome |-> "none", raised |-> FALSE,
           invoked |-> FALSE, value |-> EmptyDict, available |-> {}]

CallRecord(tool_name, outcome) ==
    LET r == execute_tool(tool_name, outcome)
    IN [tool |-> tool_name, outcome |-> outcome.kind, raised |-> r.raised,
        invoked |-> r.invoked, value |-> r.value, available |-> r.available]

\* --------------------------------- ToolRegistry of src/agent/tools/registry
\* names under which a caller registers tools
ToolNames == {"mock-tool", "tool1", "tool2"}

\* names a caller passes to the lookups
LookupNames == ToolNames \cup {"nonexistent"}

\* list(self._tools.keys()) as a set
Keys(tools) == {tools[i] : i \in 1..Len(tools)}

\* the record of one method call: raised is the exception type or "none",
\* available the names listed in the exception message, entered the methods
\* of a tool object that were called, valid what validate_input did
RegCall(op, tool_name, raised, available, entered, value) ==
    [op |-> op, tool |-> tool_name, raised |-> raised, available |-> available,
     entered |-> entered, value |-> value, valid |-> "None"]

NoRegCall == RegCall("none", "none", "none", <<>>, {}, "None")

\* register(tool): an object without schema/execute/validate_input is
\* rejected; a name already present keeps its place in the dict
register(tools, tool_name, is_tool) ==
    IF ~is_tool
    THEN [tools |-> tools,
          call |-> RegCall("register", tool_name, "TypeError", <<>>, {}, "None")]
    ELSE [tools |-> IF tool_name \in Keys(tools) THEN tools
                    ELSE Append(tools, tool_name),
          call |-> RegCall("register", tool_name, "none", <<>>, {}, "None")]

unregister(tools, tool_name) ==
    IF tool_name \in Keys(tools)
    THEN [tools |-> SelectSeq(tools, LAMBDA n : n # tool_name),
          call |-> RegCall("unregister", tool_name, "none", <<>>, {}, "True")]
    ELSE [tools |-> tools,
          call |-> RegCall("unregister", tool_name, "none", <<>>, {}, "False")]

\* get() handing back None for a name that is not registered
get_returns_none(tools, tool_name) ==
    IF tool_name \in Keys(tools)
    THEN RegCall("get", tool_name, "none", <<>>, {}, "tool")
    ELSE RegCall("get", tool_name, "none", <<>>, {}, "None")

\* get(tool_name): the tool, or ToolNotFoundError with the registered names
get(tools, tool_name) ==
    IF tool_name \in Keys(tools)
    THEN RegCall("get", tool_name, "none", <<>>, {}, "tool")
    ELSE RegCall("get", tool_name, "ToolNotFoundError", tools, {}, "None")

has_tool(tools, tool_name) ==
    RegCall("has_tool", tool_name, "none", <<>>, {},
            IF tool_name \in Keys(tools) THEN "True" ELSE "False")

\* get_schema(tool_name): get() and the schema of what it returned
get_schema(tools, tool_name) ==
    LET g == get(tools, tool_name)
    IN IF g.raised # "none"
       THEN [g EXCEPT !.op = "get_schema"]
       ELSE IF g.value = "None"
            THEN RegCall("get_schema", tool_name, "AttributeError", <<>>, {}, "None")
            ELSE RegCall("get_schema", tool_name, "none", <<>>, {}, "schema")

\* what a registered tool does when execute() drives it
ToolBehaviours ==
    [valid : {"True", "False", "raises"}, exec : {"ok", "raises"}]

\* execute() calling the tool without validating its input
execute_without_validation(tools, tool_name, b) ==
    LET g == get(tools, tool_name)
    IN IF g.raised # "none"
       THEN [g EXCEPT !.op = "execute"]
       ELSE IF b.exec = "raises"
            THEN RegCall("execute", tool_name, "ToolExecutionError", <<>>,
                         {"execute"}, "None")
            ELSE RegCall("execute", tool_name, "none", <<>>, {"execute"}, "result")

\* execute(tool_name, **kwargs): get, validate_input, execute
execute(tools, tool_name, b) ==
    LET g == get(tools, tool_name)
    IN IF g.raised # "none"
       THEN [g EXCEPT !.op = "execute"]
       ELSE IF g.value = "None" \/ b.valid # "True"
            THEN [RegCall("execute", tool_name, "ToolValidationError", <<>>,
                          IF g.value = "None" THEN {} ELSE {"validate_input"},
                          "None")
                    EXCEPT !.valid = IF g.value = "None" THEN "None" ELSE b.valid]
            ELSE IF b.exec = "raises"
                 THEN [RegCall("execute", tool_name, "ToolExecutionError", <<>>,
                               {"validate_input", "execute"}, "None")
                         EXCEPT !.valid = b.valid]
                 ELSE [RegCall("execute", tool_name, "none", <<>>,
                               {"validate_input", "execute"}, "result")
                         EXCEPT !.valid = b.valid]

RegistryIdle ==
    /\ _tools = <<>>
    /\ reg_call = NoRegCall

\* ------------------------------------------------------------- AgentLogger
start_session(ss, session_id) ==
    (session_id :> [completed_at |-> "None", logs |-> <<>>, status |-> "running"])
        @@ ss

LogEntry(phase, content, it) ==
    [phase |-> phase, iteration |-> it, content |-> content]

\* a logger whose sessions all hold the same list object
log_shared_list(ss, session_id, phase, content, it) ==
    IF session_id \notin DOMAIN ss
    THEN ss
    ELSE [sid \in DOMAIN ss |->
            Put(ss[sid], "logs", Append(ss[sid].logs, LogEntry(phase, content, it)))]

\* iteration 0 stands for iteration = None
log(ss, session_id, phase, content, it) ==
    IF session_id \notin DOMAIN ss
    THEN ss
    ELSE [ss EXCEPT ![session_id] =
            Put(@, "logs", Append(@.logs, LogEntry(phase, content, it)))]

complete_session(ss, session_id, status, output) ==
    IF session_id \notin DOMAIN ss
    THEN ss
    ELSE LET s1 == Put(Put(ss[session_id], "completed_at", "now"), "status", status)
         IN [ss EXCEPT ![session_id] =
                IF Truthy(output) THEN Put(s1, "output", output) ELSE s1]

get_logs(ss, session_id) ==
    IF session_id \notin DOMAIN ss THEN <<>> ELSE ss[session_id].logs

\* ------------------------------------------------------- what the LLM says
Dict(d) == [kind |-> "dict", d |-> d]

NonDict == [kind |-> "nondict", d |-> EmptyDict]

NoPlan == [kind |-> "none", d |-> EmptyDict]

\* tool names an LLM may put into a TOOL_CALL plan
ToolChoices == {"search-content", "web-search", "no-such-tool"}

ResearchPlans == {[proposed_searches |-> 2], [proposed_searches |-> 0]}

PlanDicts ==
    {[action_type |-> "TOOL_CALL", tool |-> t, args |-> "args", reasoning |-> "r"] :
        t \in ToolChoices}
    \cup {[action_type |-> "COMPLETE", output |-> [insights |-> "list"], reasoning |-> "r"],
          [action_type |-> "COMPLETE", reasoning |-> "r"],
          [action_type |-> "CLARIFY", question |-> "Which topic?", reasoning |-> "r"],
          [action_type |-> "CLARIFY", reasoning |-> "r"],
          [action_type |-> "PLAN_APPROVAL", reasoning |-> "r"],
          [action_type |-> "SEARCH", tool |-> "search-content", reasoning |-> "r"],
          [reasoning |-> "r"]}
    \cup {[action_type |-> "PLAN_APPROVAL", research_plan |-> rp, reasoning |-> "r"] :
            rp \in ResearchPlans}

\* a completion call either raises or returns a text
LLMReplies(values) ==
    {[failed |-> TRUE, text |-> <<>>]}
    \cup {[failed |-> FALSE, text |-> txt] :
            txt \in UNION {Shapes(JsonTok(v)) : v \in values}
                    \cup Shapes(Tok("garbage"))
                    \cup {<<Tok("prose"), JsonTok(v)>> : v \in values}}

PlanReplies == LLMReplies({Dict(d) : d \in PlanDicts} \cup {NonDict})

PartialDicts ==
    {[warning |-> "w", insights |-> "list", sources_summary |-> "s",
      recommendations |-> "list", missing |-> "list", assumptions |-> "list",
      status |-> "partial"],
     [warning |-> "w", insights |-> "list"]}

PartialReplies == LLMReplies({Dict(d) : d \in PartialDicts} \cup {NonDict})

\* ------------------------------------------------------------ StepExecutor
\* sense(): the get-user-context call sits in a try/except
sense(ctx, ss, it, outcome) ==
    LET r == execute_tool("get-user-context", outcome)
    IN IF r.raised
       THEN [context |-> ctx,
             sessions |-> log(ss, Sid, "SENSE",
                              [error |-> "text", status |-> "failed"], it),
             invoked |-> r.invoked]
       ELSE [context |-> Put(ctx, "user_context", r.value),
             sessions |-> log(ss, Sid, "SENSE",
                              [user_context |-> r.value, message |-> "gathered"], it),
             invoked |-> r.invoked]

\* the fallback plan of the except branch of plan()
FallbackPlan(v) ==
    IF v = "refactored"
    THEN [action_type |-> "COMPLETE", reasoning |-> "Error in planning: text",
          output |-> [error |-> "text", type |-> "planning_error"]]
    ELSE [action_type |-> "COMPLETE", reasoning |-> "Error in planning phase",
          output |-> [error |-> "Planning failed: text"]]

\* the try block of plan() entered only for the LLM call
PlanTryCovers_llm_only(failure) == failure = "llm"

\* which failures the try block of plan() encloses
PlanTryCovers(failure) == failure \in {"llm", "parse"}

\* plan(): LLM call, parse, log; any exception gives the fallback plan
plan_phase(reply, ss, it, v) ==
    LET failure == IF reply.failed THEN "llm"
                   ELSE IF parse_json_response(reply.text).raised THEN "parse"
                   ELSE "none"
    IN IF failure = "none"
       THEN [raised |-> FALSE, failure |-> failure,
             plan |-> parse_json_response(reply.text).value,
             sessions |-> log(ss, Sid, "PLAN",
                              [plan |-> "plan", llm_response |-> "text",
                               iteration |-> "n"], it)]
       ELSE IF PlanTryCovers(failure)
            THEN [raised |-> FALSE, failure |-> failure,
                  plan |-> Dict(FallbackPlan(v)),
                  sessions |-> log(ss, Sid, "PLAN",
                                   [error |-> "text", status |-> "failed"], it)]
            ELSE [raised |-> TRUE, failure |-> failure, plan |-> NoPlan,
                  sessions |-> ss]

\* an except branch of act() whose dict has no error key
act_error_without_key(p, ss, it, outcome) ==
    IF Get(p, "action_type", "None") # "TOOL_CALL"
    THEN [result |-> [status |-> "skipped", reason |-> "Action type"],
          sessions |-> ss, invoked |-> FALSE]
    ELSE LET tool_name == Get(p, "tool", "None")
             r == execute_tool(tool_name, outcome)
             failure == [message |-> "Unknown tool", tool |-> tool_name,
                         args |-> Get(p, "args", "{}")]
         IN IF r.raised \/ "error" \in DOMAIN r.value
            THEN [result |-> failure,
                  sessions |-> log(ss, Sid, "ACT", failure, it),
                  invoked |-> r.invoked]
            ELSE [result |-> r.value,
                  sessions |-> log(ss, Sid, "ACT",
                                   [tool |-> tool_name, args |-> Get(p, "args", "{}"),
                                    result_preview |-> "text"], it),
                  invoked |-> r.invoked]

\* act(): skipped unless TOOL_CALL; execute_tool sits in a try/except
act(p, ss, it, outcome) ==
    IF Get(p, "action_type", "None") # "TOOL_CALL"
    THEN [result |-> [status |-> "skipped", reason |-> "Action type"],
          sessions |-> ss, invoked |-> FALSE]
    ELSE LET tool_name == Get(p, "tool", "None")
             r == execute_tool(tool_name, outcome)
         IN IF r.raised
            THEN LET error_result == [error |-> "Unknown tool", tool |-> tool_name,
                                      args |-> Get(p, "args", "{}")]
                 IN [result |-> error_result,
                     sessions |-> log(ss, Sid, "ACT", error_result, it),
                     invoked |-> r.invoked]
            ELSE [result |-> r.value,
                  sessions |-> log(ss, Sid, "ACT",
                                   [tool |-> tool_name, args |-> Get(p, "args", "{}"),
                                    result_preview |-> "text"], it),
                  invoked |-> r.invoked]

\* summarize_result(): the keys of the summary
summarize_result(res) ==
    LET summary ==
            (IF "error" \in DOMAIN res THEN {"error"} ELSE {})
            \cup (IF "results" \in DOMAIN res
                  THEN {"results_count", "results_preview"} ELSE {})
            \cup (IF "insights" \in DOMAIN res
                  THEN {"insights_count", "insights_preview"} ELSE {})
            \cup (IF "ragas_scores" \in DOMAIN res THEN {"ragas_scores"} ELSE {})
            \cup (IF "week" \in DOMAIN res THEN {"week"} ELSE {})
            \cup (IF "topics" \in DOMAIN res THEN {"topics"} ELSE {})
    IN IF summary = {} THEN {"preview"} ELSE summary

\* observe(): success/failed by the presence of an error key
observe(p, res, ss, it) ==
    LET has_error == "error" \in DOMAIN res
        observation == [tool |-> Get(p, "tool", "None"),
                        status |-> IF has_error THEN "failed" ELSE "success",
                        result_summary |-> summarize_result(res)]
    IN log(ss, Sid, "OBSERVE",
           IF has_error THEN Put(observation, "error", res["error"]) ELSE observation,
           it)

\* an except branch of reflect() that logs the error and returns None
reflect_without_fallback(llm_ok, ss, it) ==
    IF llm_ok
    THEN [reflection |-> "assessment",
          sessions |-> log(ss, Sid, "REFLECT",
                           [reflection |-> "assessment", iteration |-> "n"], it)]
    ELSE [reflection |-> "None",
          sessions |-> log(ss, Sid, "REFLECT",
                           [error |-> "text", fallback |-> "None"], it)]

\* reflect(): the LLM call sits in a try/except
reflect(llm_ok, ss, it) ==
    IF llm_ok
    THEN [reflection |-> "assessment",
          sessions |-> log(ss, Sid, "REFLECT",
                           [reflection |-> "assessment", iteration |-> "n"], it)]
    ELSE [reflection |-> "Error in reflection: text",
          sessions |-> log(ss, Sid, "REFLECT",
                           [error |-> "text",
                            fallback |-> "Error in reflection: text"], it)]

Min(a, b) == IF a < b THEN a ELSE b

\* sources[:10] built from context["search_results"] (number of sources)
Sources(ctx) == IF "search_results" \in DOMAIN ctx THEN Min(ctx["search_results"], 10) ELSE 0

\* the template-filled partial result of the except branch
FallbackPartial(ctx, v) ==
    IF v = "refactored"
    THEN [warning |-> "w", insights |-> "list", recommendations |-> "list",
          error |-> "text", status |-> "partial", sources |-> Sources(ctx)]
    ELSE [warning |-> "w", insights |-> "list", sources_summary |-> "s",
          recommendations |-> "list", missing |-> "list", assumptions |-> "list",
          status |-> "partial", iterations_used |-> Len(ctx["iteration_history"]),
          max_iterations |-> "N", goal |-> "goal", sources |-> Sources(ctx)]

\* ', '.join(user_context.get('topics', [])) of the older fallback raises
\* TypeError when the stored topics value is None
FallbackRaises(ctx, v) ==
    /\ v = "legacy"
    /\ "user_context" \in DOMAIN ctx
    /\ Get(ctx["user_context"], "topics", "list") = "None"

\* generate_partial_result() with no try around the LLM call and the
\* parsing of its reply
generate_partial_result_no_try(reply, ctx, ss, v) ==
    LET parsed == parse_json_response(reply.text)
        ok == ~reply.failed /\ ~parsed.raised /\ parsed.value.kind = "dict"
    IN IF ok
       THEN [raised |-> FALSE,
             output |-> Put(Put(parsed.value.d, "sources", Sources(ctx)),
                            "search_iterations", "list"),
             sessions |-> log(ss, Sid, "PARTIAL_RESULT",
                              [sources_count |-> Sources(ctx),
                               search_iterations |-> "list",
                               status |-> "partial"],
                              Len(ctx["iteration_history"]))]
       ELSE [raised |-> TRUE, output |-> EmptyDict, sessions |-> ss]

\* generate_partial_result(): one more LLM call in a try/except; item
\* assignment on a parsed non-object raises TypeError inside the try
generate_partial_result(reply, ctx, ss, v) ==
    LET parsed == parse_json_response(reply.text)
        ok == ~reply.failed /\ ~parsed.raised /\ parsed.value.kind = "dict"
    IN IF ok
       THEN IF v = "refactored"
            THEN [raised |-> FALSE,
                  output |-> Put(Put(parsed.value.d, "sources", Sources(ctx)),
                                 "search_iterations", "list"),
                  sessions |-> log(ss, Sid, "PARTIAL_RESULT",
                                   [sources_count |-> Sources(ctx),
                                    search_iterations |-> "list",
                                    status |-> "partial"],
                                   Len(ctx["iteration_history"]))]
            ELSE [raised |-> FALSE,
                  output |-> Put(Put(Put(Put(parsed.value.d,
                                    "iterations_used", Len(ctx["iteration_history"])),
                                    "max_iterations", "N"), "goal", "goal"),
                                    "sources", Sources(ctx)),
                  sessions |-> ss]
       ELSE IF FallbackRaises(ctx, v)
            THEN [raised |-> TRUE, output |-> EmptyDict, sessions |-> ss]
            ELSE [raised |-> FALSE, output |-> FallbackPartial(ctx, v),
                  sessions |-> ss]

\* -------------------------------------------------------------- QualityGate
\* Scores are hundredths (0.70 is 70). float(score) of a metric can be
\* nan, for which every comparison is false.
NaN == 0 - 1

ScoreValues == {69, 70, 75, NaN}

\* configured min_score values: the default 0.70 and a stricter one
MinScores == {70, 75}

RequiredMetrics == {"faithfulness", "context_precision", "context_recall"}

\* a < b on floats
Lt(a, b) == a # NaN /\ b # NaN /\ a < b

\* a >= b on floats
Ge(a, b) == a # NaN /\ b # NaN /\ a >= b

Scores(f, p, r, avg) ==
    [faithfulness |-> f, context_precision |-> p, context_recall |-> r,
     average |-> avg]

\* sum(scores.values()) / len(scores)
Average(f, p, r) == IF NaN \in {f, p, r} THEN NaN ELSE (f + p + r) \div 3

\* RAGASMetrics._placeholder_scores()
_placeholder_scores == Scores(75, 75, 75, 75)

\* the zero scores of the timeout branch and of the evaluator's failures
ZeroScores == Scores(0, 0, 0, 0)

\* what one evaluation meets: RAGAS missing, RAGAS failing as a whole, the
\* evaluator failing around it, or three metric values (a metric that
\* raises counts 0.75)
EvalOutcomes ==
    {[kind |-> k, f |-> 0, p |-> 0, r |-> 0] : k \in {"unavailable", "metrics_failed", "failed"}}
    \cup [kind : {"scores"}, f : ScoreValues, p : ScoreValues, r : ScoreValues]

\* RAGASMetrics.evaluate_all()
evaluate_all(o) ==
    IF o.kind \in {"unavailable", "metrics_failed"}
    THEN _placeholder_scores
    ELSE Scores(o.f, o.p, o.r, Average(o.f, o.p, o.r))

\* InsightEvaluator.evaluate_digest(); the chunks are those of generate(),
\* which are never empty when the gate is applied
evaluate_digest(ins, o) ==
    IF ins.n = 0
    THEN Put(ZeroScores, "error", "No insights provided")
    ELSE IF o.kind = "failed"
         THEN Put(ZeroScores, "error", "text")
         ELSE evaluate_all(o)

\* InsightEvaluator.passes_quality_gate()
passes_quality_gate(s, threshold) ==
    \A metric \in RequiredMetrics : ~Lt(Get(s, metric, 0), threshold)

NoInsights == [gen |-> 0, n |-> 0]

\* the tuple (final_insights, final_scores, passed) of apply_gate
GateReturn(ins, sc, passed) ==
    [returned |-> TRUE, insights |-> ins, scores |-> sc, passed |-> passed]

NoGateResult ==
    [returned |-> FALSE, insights |-> NoInsights, scores |-> EmptyDict,
     passed |-> FALSE]

\* the timeout guard left out
TimedOut_never(elapsed_time, timeout) == FALSE

\* elapsed_time > self.timeout_seconds
TimedOut(elapsed_time, timeout) == elapsed_time > timeout

\* one retry more than configured
RetriesAvailable_inclusive(count, max) == count <= max

\* retry_count < self.max_retries
RetriesAvailable(count, max) == count < max

\* the out-of-retries return handing back the placeholder scores
OutOfRetries_placeholder(ins, sc) == GateReturn(ins, ZeroScores, FALSE)

\* the out-of-retries return of apply_gate
OutOfRetries(ins, sc) == GateReturn(ins, sc, FALSE)

\* averages in hundredths, 0.00 .. 1.00
AverageValues == 0..100

\* QualityBadge.get_badge; the label stands for the emoji-prefixed string
get_badge(avg) ==
    IF avg >= 90 THEN "Excellent"
    ELSE IF avg >= 80 THEN "Good"
    ELSE IF avg >= 70 THEN "Acceptable"
    ELSE IF avg >= 60 THEN "Needs Improvement"
    ELSE "Poor"

\* DigestGenerator._determine_quality_badge; each label is the comment the
\* code puts next to the emoji it returns
_determine_quality_badge(avg_score) ==
    IF avg_score >= 85 THEN "High quality"
    ELSE IF avg_score >= 70 THEN "Good quality"
    ELSE "Below threshold"

NoFirstCall == [n |-> 0, start_time |-> 0]

NoDigest ==
    [built |-> FALSE, insights |-> NoInsights, ragas_scores |-> EmptyDict,
     quality_badge |-> "none", quality_passed |-> FALSE]

GateIdle ==
    /\ gate_pc = "idle"
    /\ max_retries = 0
    /\ timeout_seconds = 1
    /\ min_score = 70
    /\ now = 0
    /\ start_time = 0
    /\ retry_count = 0
    /\ insights = NoInsights
    /\ scores = EmptyDict
    /\ gate_result = NoGateResult
    /\ evaluated = NoInsights
    /\ eval_calls = 0
    /\ synth_calls = 0
    /\ synth_args = <<>>
    /\ first_call = NoFirstCall
    /\ digest = NoDigest
    /\ eval_kind = "none"

\* ------------------------------------------- state of the other components
SessionIds == {"s1", "s2"}

\* nothing issued for any session id yet
NoneIssued == [sid \in SessionIds |-> [started |-> FALSE, logs |-> <<>>, status |-> "none"]]

NoPureCall == [fn |-> "none", x |-> 0, y |-> 0, score |-> 0, badge |-> "none"]

\* a metric task before it has run; met = what the metric did
PendingTask == [state |-> "pending", met |-> "none", v |-> 0, result |-> 0]

NoMetricsCall ==
    [pc |-> "idle", tasks |-> [m \in RequiredMetrics |-> PendingTask],
     scores |-> EmptyDict]

AuxIdle ==
    /\ metrics_call = NoMetricsCall
    /\ issued = NoneIssued
    /\ pure_call = NoPureCall
    /\ ui_pc = "idle"
    /\ other_pc = "idle"
    /\ plan_reads = [sid \in SessionIds |-> <<>>]

\* --------------------------------------------------------- AgentController
NoResult == [status |-> "none", output |-> EmptyDict, iteration_count |-> 0,
             logs |-> <<>>]

\* a terminal handler that completes the session without logging its entry
Finish_without_log(ss, status, phase, content, it, session_output, output) ==
    LET ss2 == complete_session(ss, Sid, status, session_output)
    IN /\ sessions' = ss2
       /\ agent_result' = [status |-> status, output |-> output,
                           iteration_count |-> iteration,
                           logs |-> get_logs(ss2, Sid)]
       /\ terminal_trace' = Append(terminal_trace, status)
       /\ pc' = "done"
       /\ escaped' = escaped

\* a terminal handler that writes one more entry after complete_session
Finish_log_after_complete(ss, status, phase, content, it, session_output, output) ==
    LET ss2 == log(complete_session(log(ss, Sid, phase, content, it), Sid, status,
                                    session_output),
                   Sid, phase, [message |-> "returned"], it)
    IN /\ sessions' = ss2
       /\ agent_result' = [status |-> status, output |-> output,
                           iteration_count |-> iteration,
                           logs |-> get_logs(ss2, Sid)]
       /\ terminal_trace' = Append(terminal_trace, status)
       /\ pc' = "done"
       /\ escaped' = escaped

\* return AgentResult(...) after logging the terminal entry and completing
\* the session
Finish(ss, status, phase, content, it, session_output, output) ==
    LET ss2 == complete_session(log(ss, Sid, phase, content, it), Sid, status,
                                session_output)
    IN /\ sessions' = ss2
       /\ agent_result' = [status |-> status, output |-> output,
                           iteration_count |-> iteration,
                           logs |-> get_logs(ss2, Sid)]
       /\ terminal_trace' = Append(terminal_trace, status)
       /\ pc' = "done"
       /\ escaped' = escaped

\* _handle_completion raising after complete_session, inside the try of run()
_handle_completion_then_error(ss) ==
    LET output == Get(plan.d, "output", EmptyDict)
        ss2 == complete_session(
                   log(ss, Sid, "COMPLETE",
                       [output |-> output,
                        reasoning |-> Get(plan.d, "reasoning", "")], iteration),
                   Sid, "completed", output)
        ss3 == complete_session(log(ss2, Sid, "ERROR", [error |-> "text"], 0),
                                Sid, "failed", EmptyDict)
    IN /\ sessions' = ss3
       /\ agent_result' = [status |-> "failed", output |-> [error |-> "text"],
                           iteration_count |-> iteration,
                           logs |-> get_logs(ss3, Sid)]
       /\ terminal_trace' = terminal_trace \o <<"completed", "failed">>
       /\ pc' = "done"
       /\ escaped' = escaped

\* _handle_completion ignoring the output of the plan
_handle_completion_default_output(ss) ==
    Finish(ss, "completed", "COMPLETE",
           [output |-> EmptyDict, reasoning |-> Get(plan.d, "reasoning", "")],
           iteration, EmptyDict, EmptyDict)

_handle_completion(ss) ==
    LET output == Get(plan.d, "output", EmptyDict)
    IN Finish(ss, "completed", "COMPLETE",
              [output |-> output, reasoning |-> Get(plan.d, "reasoning", "")],
              iteration, output, output)

_handle_clarification(ss) ==
    LET question == Get(plan.d, "question", "Need more information")
    IN Finish(ss, "needs_clarification", "CLARIFY",
              [question |-> question, reasoning |-> Get(plan.d, "reasoning", "")],
              iteration, [question |-> question],
              [question |-> question, type |-> "clarification_needed"])

_handle_plan_approval(ss) ==
    LET research_plan == Get(plan.d, "research_plan", EmptyDict)
    IN Finish(ss, "needs_approval", "PLAN_APPROVAL",
              [research_plan |-> research_plan,
               reasoning |-> Get(plan.d, "reasoning", "")],
              iteration, [research_plan |-> research_plan],
              [research_plan |-> research_plan, type |-> "plan_approval_needed",
               message |-> "Web search requires your approval"])

\* _handle_error returning an empty output
_handle_error_no_payload(ss) ==
    Finish(ss, "failed", "ERROR", [error |-> "text"], 0, EmptyDict, EmptyDict)

_handle_error(ss) ==
    Finish(ss, "failed", "ERROR", [error |-> "text"], 0, EmptyDict,
           [error |-> "text"])

\* the try of run() closed after the loop, before the timeout handling
InTry_loop_only(point) == point \in {"sense", "plan", "dispatch", "act", "observe",
                                     "reflect"}

\* which statements of run() the try/except Exception encloses
InTry(point) == point \in {"sense", "plan", "dispatch", "act", "observe",
                           "reflect", "timeout"}

\* an exception raised at a statement of run()
Raise(point, ss) ==
    IF InTry(point)
    THEN _handle_error(ss)
    ELSE /\ escaped' = TRUE
         /\ pc' = "raised"
         /\ sessions' = ss
         /\ UNCHANGED <<agent_result, terminal_trace>>

\* off-by-one loop condition
LoopCond_inclusive(it, max) == it <= max

\* the loop condition of run()
LoopCond(it, max) == it < max

\* SENSE at the start of every iteration
SenseDue_every_iteration(it) == TRUE

\* if iteration == 1: SENSE runs at the start of the first iteration only
SenseDue(it) == it = 1

\* the controller has a PLAN_APPROVAL branch after PLAN (the older
\* controller in agent/controller.py has none)
HandlesPlanApproval(v) == v = "refactored"

\* plan.get("action_type") of the plan held by run()
ActionType == Get(plan.d, "action_type", "None")

Init ==
    /\ variant \in {"refactored", "legacy"}
    /\ max_iterations \in 1..MaxIterBound
    /\ skip_approval \in BOOLEAN
    /\ pc = "idle"
    /\ iteration = 0
    /\ context = EmptyDict
    /\ plan = NoPlan
    /\ result = EmptyDict
    /\ response = "none"
    /\ sessions = EmptyDict
    /\ agent_result = NoResult
    /\ plan_calls = 0
    /\ plan_trace = <<>>
    /\ executed = {}
    /\ approval_seen = FALSE
    /\ terminal_trace = <<>>
    /\ last_call = NoCall
    /\ escaped = FALSE
    /\ RegistryIdle
    /\ GateIdle
    /\ AuxIdle

\* a caller outside the loop (the approval UI, a script) uses the registry
\* directly
DirectNames == RegisteredTools \cup {"no-such-tool"}

DirectCall ==
    /\ UNCHANGED <<regVars, gateVars, auxVars>>
    /\ pc = "idle"
    /\ last_call = NoCall
    /\ \E name \in DirectNames :
          \E outcome \in ToolOutcomes(name) :
             last_call' = CallRecord(name, outcome)
    /\ UNCHANGED <<variant, max_iterations, skip_approval, pc, iteration, context,
                   plan, result, response, sessions, agent_result, plan_calls,
                   plan_trace, executed, approval_seen, terminal_trace, escaped>>

\* start_session and the initialisation of the locals
StartRun ==
    /\ UNCHANGED <<regVars, gateVars, auxVars>>
    /\ pc = "idle"
    /\ sessions' = start_session(sessions, Sid)
    /\ iteration' = 0
    /\ context' = [user_id |-> "u", iteration_history |-> <<>>]
    /\ pc' = "loop"
    /\ UNCHANGED <<last_call, variant, max_iterations, skip_approval, plan, result, response,
                   agent_result, plan_calls, plan_trace, executed, approval_seen,
                   terminal_trace, escaped>>

\* while iteration < max_iterations: iteration += 1
LoopTest ==
    /\ UNCHANGED <<regVars, gateVars, auxVars>>
    /\ pc = "loop"
    /\ IF LoopCond(iteration, max_iterations)
       THEN /\ iteration' = iteration + 1
            /\ pc' = IF SenseDue(iteration + 1) THEN "sense" ELSE "plan"
       ELSE /\ iteration' = iteration
            /\ pc' = "timeout"
    /\ UNCHANGED <<last_call, variant, max_iterations, skip_approval, context, plan, result,
                   response, sessions, agent_result, plan_calls, plan_trace,
                   executed, approval_seen, terminal_trace, escaped>>

Sense ==
    /\ UNCHANGED <<regVars, gateVars, auxVars>>
    /\ pc = "sense"
    /\ \E outcome \in ToolOutcomes("get-user-context") :
          LET r == sense(context, sessions, iteration, outcome)
          IN /\ context' = r.context
             /\ sessions' = r.sessions
             /\ executed' = IF r.invoked THEN executed \cup {"get-user-context"}
                            ELSE executed
             /\ last_call' = CallRecord("get-user-context", outcome)
    /\ pc' = "plan"
    /\ UNCHANGED <<variant, max_iterations, skip_approval, iteration, plan, result,
                   response, agent_result, plan_calls, plan_trace, approval_seen,
                   terminal_trace, escaped>>

Plan ==
    /\ UNCHANGED <<regVars, gateVars, auxVars>>
    /\ pc = "plan"
    /\ plan_calls' = plan_calls + 1
    /\ \E reply \in PlanReplies :
          LET r == plan_phase(reply, sessions, iteration, variant)
          IN /\ response' = r.failure
             /\ plan' = r.plan
             /\ plan_trace' = Append(plan_trace,
                    IF r.plan.kind = "dict"
                    THEN Get(r.plan.d, "action_type", "None") ELSE r.plan.kind)
             /\ IF r.raised
                THEN Raise("plan", r.sessions)
                ELSE /\ sessions' = r.sessions
                     /\ pc' = "dispatch"
                     /\ UNCHANGED <<agent_result, terminal_trace, escaped>>
    /\ UNCHANGED <<variant, max_iterations, skip_approval, iteration, context,
                   result, executed, approval_seen, last_call>>

\* plan.get(...) on a parsed value that is not an object raises
PlanCrash ==
    /\ UNCHANGED <<regVars, gateVars, auxVars>>
    /\ pc = "dispatch"
    /\ plan.kind # "dict"
    /\ Raise("dispatch", sessions)
    /\ UNCHANGED <<last_call, variant, max_iterations, skip_approval, iteration, context, plan,
                   result, response, plan_calls, plan_trace, executed,
                   approval_seen>>

Complete ==
    /\ UNCHANGED <<regVars, gateVars, auxVars>>
    /\ pc = "dispatch"
    /\ plan.kind = "dict"
    /\ ActionType = "COMPLETE"
    /\ _handle_completion(sessions)
    /\ UNCHANGED <<last_call, variant, max_iterations, skip_approval, iteration, context, plan,
                   result, response, plan_calls, plan_trace, executed,
                   approval_seen>>

Clarify ==
    /\ UNCHANGED <<regVars, gateVars, auxVars>>
    /\ pc = "dispatch"
    /\ plan.kind = "dict"
    /\ ActionType = "CLARIFY"
    /\ _handle_clarification(sessions)
    /\ UNCHANGED <<last_call, variant, max_iterations, skip_approval, iteration, context, plan,
                   result, response, plan_calls, plan_trace, executed,
                   approval_seen>>

Approval ==
    /\ UNCHANGED <<regVars, gateVars, auxVars>>
    /\ pc = "dispatch"
    /\ plan.kind = "dict"
    /\ ActionType = "PLAN_APPROVAL"
    /\ HandlesPlanApproval(variant)
    /\ _handle_plan_approval(sessions)
    /\ approval_seen' = TRUE
    /\ UNCHANGED <<last_call, variant, max_iterations, skip_approval, iteration, context, plan,
                   result, response, plan_calls, plan_trace, executed>>

Act ==
    /\ UNCHANGED <<regVars, gateVars, auxVars>>
    /\ pc = "dispatch"
    /\ plan.kind = "dict"
    /\ ActionType \notin {"COMPLETE", "CLARIFY"}
    /\ ActionType = "PLAN_APPROVAL" => ~HandlesPlanApproval(variant)
    /\ \E outcome \in ToolOutcomes(Get(plan.d, "tool", "None")) :
          LET r == act(plan.d, sessions, iteration, outcome)
          IN /\ result' = r.result
             /\ sessions' = r.sessions
             /\ executed' = IF r.invoked
                            THEN executed \cup {Get(plan.d, "tool", "None")}
                            ELSE executed
             /\ last_call' = IF ActionType = "TOOL_CALL"
                             THEN CallRecord(Get(plan.d, "tool", "None"), outcome)
                             ELSE last_call
    /\ pc' = "observe"
    /\ UNCHANGED <<variant, max_iterations, skip_approval, iteration, context, plan,
                   response, agent_result, plan_calls, plan_trace, approval_seen,
                   terminal_trace, escaped>>

\* observe() and the accumulation of search results in the context
Observe ==
    /\ UNCHANGED <<regVars, gateVars, auxVars>>
    /\ pc = "observe"
    /\ sessions' = observe(plan.d, result, sessions, iteration)
    /\ context' =
          IF Get(plan.d, "tool", "None") = "search-content"
             /\ "results" \in DOMAIN result
          THEN Put(context, "search_results",
                   Get(context, "search_results", 0) + result["results"])
          ELSE context
    /\ pc' = "reflect"
    /\ UNCHANGED <<last_call, variant, max_iterations, skip_approval, iteration, plan, result,
                   response, agent_result, plan_calls, plan_trace, executed,
                   approval_seen, terminal_trace, escaped>>

\* reflect() and the update of last_reflection and iteration_history
Reflect ==
    /\ UNCHANGED <<regVars, gateVars, auxVars>>
    /\ pc = "reflect"
    /\ \E llm_ok \in BOOLEAN :
          LET r == reflect(llm_ok, sessions, iteration)
          IN /\ sessions' = r.sessions
             /\ context' =
                  Put(Put(context, "last_reflection", r.reflection),
                      "iteration_history",
                      Append(context["iteration_history"],
                             [iteration |-> iteration,
                              action |-> ActionType,
                              tool |-> Get(plan.d, "tool", "None"),
                              reflection |-> r.reflection]))
    /\ pc' = "loop"
    /\ UNCHANGED <<last_call, variant, max_iterations, skip_approval, iteration, plan, result,
                   response, agent_result, plan_calls, plan_trace, executed,
                   approval_seen, terminal_trace, escaped>>

\* _handle_timeout(): the partial result, the COMPLETE entry, status timeout
Timeout ==
    /\ UNCHANGED <<regVars, gateVars, auxVars>>
    /\ pc = "timeout"
    /\ \E reply \in PartialReplies :
          LET r == generate_partial_result(reply, context, sessions, variant)
          IN IF r.raised
             THEN Raise("timeout", r.sessions)
             ELSE Finish(r.sessions, "timeout", "COMPLETE",
                         [status |-> "timeout", message |-> "Max iterations",
                          partial_output |-> r.output],
                         0, r.output, r.output)
    /\ UNCHANGED <<last_call, variant, max_iterations, skip_approval, iteration, context, plan,
                   result, response, plan_calls, plan_trace, executed,
                   approval_seen>>

Next ==
    \/ DirectCall
    \/ StartRun
    \/ LoopTest
    \/ Sense
    \/ Plan
    \/ PlanCrash
    \/ Complete
    \/ Clarify
    \/ Approval
    \/ Act
    \/ Observe
    \/ Reflect
    \/ Timeout

Spec == Init /\ [][Next]_vars

TypeOK ==
    /\ pc \in {"idle", "loop", "sense", "plan", "dispatch", "observe", "reflect",
                "timeout", "done", "raised"}
    /\ iteration \in 0..(MaxIterBound + 1)

\* ------------------------------------------- the registry used on its own
\* run() is not started: its variables keep their initial values
RunIdle ==
    /\ variant = "refactored"
    /\ max_iterations = 1
    /\ skip_approval = FALSE
    /\ pc = "idle"
    /\ iteration = 0
    /\ context = EmptyDict
    /\ plan = NoPlan
    /\ result = EmptyDict
    /\ response = "none"
    /\ sessions = EmptyDict
    /\ agent_result = NoResult
    /\ plan_calls = 0
    /\ plan_trace = <<>>
    /\ executed = {}
    /\ approval_seen = FALSE
    /\ terminal_trace = <<>>
    /\ last_call = NoCall
    /\ escaped = FALSE

InitRegistry ==
    /\ RunIdle
    /\ RegistryIdle
    /\ GateIdle
    /\ AuxIdle

Register ==
    /\ \E name \in ToolNames, is_tool \in BOOLEAN :
          LET r == register(_tools, name, is_tool)
          IN /\ _tools' = r.tools
             /\ reg_call' = r.call
    /\ UNCHANGED <<runVars, gateVars, auxVars>>

Unregister ==
    /\ \E name \in LookupNames :
          LET r == unregister(_tools, name)
          IN /\ _tools' = r.tools
             /\ reg_call' = r.call
    /\ UNCHANGED <<runVars, gateVars, auxVars>>

GetTool ==
    /\ \E name \in LookupNames : reg_call' = get(_tools, name)
    /\ UNCHANGED <<_tools, runVars, gateVars, auxVars>>

HasTool ==
    /\ \E name \in LookupNames : reg_call' = has_tool(_tools, name)
    /\ UNCHANGED <<_tools, runVars, gateVars, auxVars>>

GetSchema ==
    /\ \E name \in LookupNames : reg_call' = get_schema(_tools, name)
    /\ UNCHANGED <<_tools, runVars, gateVars, auxVars>>

Execute ==
    /\ \E name \in LookupNames, b \in ToolBehaviours :
          reg_call' = execute(_tools, name, b)
    /\ UNCHANGED <<_tools, runVars, gateVars, auxVars>>

NextRegistry ==
    \/ Register
    \/ Unregister
    \/ GetTool
    \/ HasTool
    \/ GetSchema
    \/ Execute
    \/ DirectCall

SpecRegistry == InitRegistry /\ [][NextRegistry]_vars

\* ------------------------------------------- the quality gate of generate()
\* QualityGate(evaluator, max_retries, timeout_minutes) constructed, no call
InitGate ==
    /\ RunIdle
    /\ RegistryIdle
    /\ AuxIdle
    /\ gate_pc = "idle"
    /\ max_retries \in 0..MaxRetriesBound
    /\ timeout_seconds \in 1..MaxTimeout
    /\ min_score \in MinScores
    /\ now = 0
    /\ start_time = 0
    /\ retry_count = 0
    /\ insights = NoInsights
    /\ scores = EmptyDict
    /\ gate_result = NoGateResult
    /\ evaluated = NoInsights
    /\ eval_calls = 0
    /\ synth_calls = 0
    /\ synth_args = <<>>
    /\ first_call = NoFirstCall
    /\ digest = NoDigest
    /\ eval_kind = "none"

\* generate() calls apply_gate with its non-empty insights; retry_count = 0
\* and start_time = None, which becomes the reading of the clock
GateCall ==
    /\ gate_pc = "idle"
    /\ \E n \in 1..MaxInsights : insights' = [gen |-> 0, n |-> n]
    /\ retry_count' = 0
    /\ start_time' = now
    /\ first_call' = [n |-> insights'.n, start_time |-> now]
    /\ gate_pc' = "check"
    /\ UNCHANGED <<runVars, regVars, auxVars, max_retries, timeout_seconds, min_score, now,
                   scores, gate_result, evaluated, eval_calls, synth_calls,
                   synth_args, digest, eval_kind>>

\* the start of an attempt: the clock is read again and compared
GateCheck ==
    /\ gate_pc = "check"
    /\ \E d \in 0..MaxStep :
          /\ now' = now + d
          /\ IF TimedOut((now + d) - start_time, timeout_seconds)
             THEN /\ gate_result' = GateReturn(insights, ZeroScores, FALSE)
                  /\ gate_pc' = "done"
             ELSE /\ gate_result' = gate_result
                  /\ gate_pc' = "evaluate"
    /\ UNCHANGED <<runVars, regVars, auxVars, max_retries, timeout_seconds, min_score,
                   start_time, retry_count, insights, scores, evaluated,
                   eval_calls, synth_calls, synth_args, first_call, digest,
                   eval_kind>>

\* evaluate_digest, passes_quality_gate and the three ways on
Evaluate ==
    /\ gate_pc = "evaluate"
    /\ eval_calls' = eval_calls + 1
    /\ evaluated' = insights
    /\ \E o \in EvalOutcomes :
          LET sc == evaluate_digest(insights, o)
          IN /\ scores' = sc
             /\ IF passes_quality_gate(sc, min_score)
                THEN /\ gate_result' = GateReturn(insights, sc, TRUE)
                     /\ gate_pc' = "done"
                ELSE IF RetriesAvailable(retry_count, max_retries)
                     THEN /\ gate_result' = gate_result
                          /\ gate_pc' = "synthesize"
                     ELSE /\ gate_result' = OutOfRetries(insights, sc)
                          /\ gate_pc' = "done"
             /\ eval_kind' = IF insights.n = 0 THEN "no_insights" ELSE o.kind
    /\ UNCHANGED <<runVars, regVars, auxVars, max_retries, timeout_seconds, min_score, now,
                   start_time, retry_count, insights, synth_calls, synth_args,
                   first_call, digest>>

\* synthesize_insights(stricter=True) and the recursive call with its
\* insights, retry_count + 1 and the same start_time
Synthesize ==
    /\ gate_pc = "synthesize"
    /\ synth_calls' = synth_calls + 1
    /\ synth_args' = Append(synth_args,
                            [retrieved_chunks |-> "retrieved_chunks",
                             num_insights |-> insights.n, stricter |-> TRUE])
    /\ \E n \in 0..MaxInsights : insights' = [gen |-> synth_calls + 1, n |-> n]
    /\ retry_count' = retry_count + 1
    /\ gate_pc' = "check"
    /\ UNCHANGED <<runVars, regVars, auxVars, max_retries, timeout_seconds, min_score, now,
                   start_time, scores, gate_result, evaluated, eval_calls,
                   first_call, digest, eval_kind>>

\* generate() after apply_gate: the badge from the scores, the digest dict
Digest ==
    /\ gate_pc = "done"
    /\ ~digest.built
    /\ digest' = [built |-> TRUE, insights |-> gate_result.insights,
                  ragas_scores |-> gate_result.scores,
                  quality_badge |->
                      _determine_quality_badge(Get(gate_result.scores, "average", 0)),
                  quality_passed |-> gate_result.passed]
    /\ UNCHANGED <<runVars, regVars, auxVars, gate_pc, max_retries, timeout_seconds,
                   min_score, now, start_time, retry_count, insights, scores, gate_result, evaluated,
                   eval_calls, synth_calls, synth_args, first_call, eval_kind>>

NextGate ==
    \/ GateCall
    \/ GateCheck
    \/ Evaluate
    \/ Synthesize
    \/ Digest

SpecGate == InitGate /\ [][NextGate]_vars

\* --------------------------------- one AgentLogger shared by two sessions
InitLogger ==
    /\ RunIdle
    /\ RegistryIdle
    /\ GateIdle
    /\ AuxIdle

\* a caller (a run() with its own session id) starts its session
StartSession ==
    /\ \E sid \in SessionIds :
          /\ sessions' = start_session(sessions, sid)
          /\ issued' = [issued EXCEPT ![sid] =
                            [started |-> TRUE, logs |-> <<>>, status |-> "running"]]
    /\ UNCHANGED <<variant, max_iterations, skip_approval, pc, iteration, context,
                   plan, result, response, agent_result, plan_calls, plan_trace,
                   executed, approval_seen, terminal_trace, last_call, escaped,
                   regVars, gateVars, pureVars, apprVars, metricVars>>

\* a caller logs a phase of its session; the content names the issuer
LogCall ==
    /\ \E sid \in SessionIds, phase \in {"PLAN", "ACT"} :
          /\ Len(issued[sid].logs) < MaxLogs
          /\ sessions' = log(sessions, sid, phase, [owner |-> sid], 1)
          /\ issued' =
                IF issued[sid].started
                THEN [issued EXCEPT ![sid].logs =
                         Append(@, LogEntry(phase, [owner |-> sid], 1))]
                ELSE issued
    /\ UNCHANGED <<variant, max_iterations, skip_approval, pc, iteration, context,
                   plan, result, response, agent_result, plan_calls, plan_trace,
                   executed, approval_seen, terminal_trace, last_call, escaped,
                   regVars, gateVars, pureVars, apprVars, metricVars>>

\* a caller completes its session
CompleteCall ==
    /\ \E sid \in SessionIds, status \in {"completed", "failed"} :
          /\ sessions' = complete_session(sessions, sid, status,
                                          IF status = "completed"
                                          THEN [owner |-> sid] ELSE EmptyDict)
          /\ issued' =
                IF issued[sid].started
                THEN [issued EXCEPT ![sid].status = status]
                ELSE issued
    /\ UNCHANGED <<variant, max_iterations, skip_approval, pc, iteration, context,
                   plan, result, response, agent_result, plan_calls, plan_trace,
                   executed, approval_seen, terminal_trace, last_call, escaped,
                   regVars, gateVars, pureVars, apprVars, metricVars>>

NextLogger ==
    \/ StartSession
    \/ LogCall
    \/ CompleteCall

SpecLogger == InitLogger /\ [][NextLogger]_vars

\* ------------------------------------------- scores and badges (pure code)
\* Scores are in thousandths inside _calculate_confidence_score and in
\* hundredths everywhere else.

\* round(score, 2) of a non-negative score given in thousandths
round2(thousandths) == (thousandths + 5) \div 10

Max(a, b) == IF a >= b THEN a ELSE b

\* the score without its floor at 0.0
_calculate_confidence_score_no_floor(db_results_count, gaps) ==
    LET base_score == IF db_results_count >= 10 THEN 1000
                      ELSE IF db_results_count >= 5 THEN 800
                      ELSE IF db_results_count >= 3 THEN 600
                      ELSE IF db_results_count >= 1 THEN 400
                      ELSE 0
        gap_penalty == gaps * 150
    IN  (base_score - gap_penalty) \div 10

_calculate_confidence_score(db_results_count, gaps) ==
    LET base_score == IF db_results_count >= 10 THEN 1000
                      ELSE IF db_results_count >= 5 THEN 800
                      ELSE IF db_results_count >= 3 THEN 600
                      ELSE IF db_results_count >= 1 THEN 400
                      ELSE 0
        gap_penalty == gaps * 150
        score == Max(0, base_score - gap_penalty)
    IN  round2(score)

InitPure ==
    /\ RunIdle
    /\ RegistryIdle
    /\ GateIdle
    /\ AuxIdle

ConfidenceScore ==
    /\ \E n \in 0..MaxDbResults, g \in 0..MaxGaps :
          pure_call' = [fn |-> "_calculate_confidence_score", x |-> n, y |-> g,
                        score |-> _calculate_confidence_score(n, g),
                        badge |-> "none"]
    /\ UNCHANGED <<runVars, regVars, gateVars, logVars, apprVars, metricVars>>

GetBadge ==
    /\ \E avg \in AverageValues :
          pure_call' = [fn |-> "get_badge", x |-> avg, y |-> 0, score |-> 0,
                        badge |-> get_badge(avg)]
    /\ UNCHANGED <<runVars, regVars, gateVars, logVars, apprVars, metricVars>>

\* the badge DigestGenerator.generate puts into the digest it returns
DetermineQualityBadge ==
    /\ \E avg \in AverageValues :
          pure_call' = [fn |-> "_determine_quality_badge", x |-> avg, y |-> 0,
                        score |-> 0, badge |-> _determine_quality_badge(avg)]
    /\ UNCHANGED <<runVars, regVars, gateVars, logVars, apprVars, metricVars>>

\* the ToolResult dicts BaseTool builds: the error key is always present,
\* None (or an empty text) on success
ToolResults ==
    {[success |-> TRUE, data |-> "data", error |-> "None"],
     [success |-> TRUE, data |-> "data", error |-> ""],
     [success |-> FALSE, data |-> "{}", error |-> "text"]}

\* observe() given a ToolResult; x = the success flag, y = whether the
\* error field holds a message, badge = the status OBSERVE logged
ObserveToolResult ==
    /\ \E res \in ToolResults :
          LET ss == observe([action_type |-> "TOOL_CALL", tool |-> "search-content"],
                            res, start_session(EmptyDict, Sid), 1)
              entry == ss[Sid].logs[1]
          IN pure_call' = [fn |-> "observe",
                           x |-> IF res.success THEN 1 ELSE 0,
                           y |-> IF res.error \in {"None", ""} THEN 0 ELSE 1,
                           score |-> 0,
                           badge |-> entry.content["status"]]
    /\ UNCHANGED <<runVars, regVars, gateVars, logVars, apprVars, metricVars>>

NextPure ==
    \/ ConfidenceScore
    \/ GetBadge
    \/ DetermineQualityBadge
    \/ ObserveToolResult

SpecPure == InitPure /\ [][NextPure]_vars

\* ------------------------- the skip-approval signal and two sessions' runs
\* skip_approval is the process environment: TRUE while the variable
\* SKIP_WEB_SEARCH_APPROVAL is set to "true".  Session s1 is the one whose
\* plan was approved in the dashboard; s2 is another session of the same
\* process, for which nothing was approved.

\* os.getenv("SKIP_WEB_SEARCH_APPROVAL", "false")
getenv_skip(env_set) == IF env_set THEN "true" ELSE "false"

InitApproval ==
    /\ RunIdle
    /\ RegistryIdle
    /\ GateIdle
    /\ AuxIdle

\* the view sets the variable and starts the resumed run of s1
GrantApproval ==
    /\ ui_pc = "idle"
    /\ Len(plan_reads["s1"]) < MaxPlanReads
    /\ skip_approval' = TRUE
    /\ ui_pc' = "running"
    /\ UNCHANGED <<variant, max_iterations, pc, iteration, context, plan, result,
                   response, sessions, agent_result, plan_calls, plan_trace,
                   executed, approval_seen, terminal_trace, last_call, escaped,
                   regVars, gateVars, metricVars, logVars, pureVars, other_pc, plan_reads>>

\* a PLAN phase of the resumed run reads the variable
ApprovedPlan ==
    /\ ui_pc = "running"
    /\ Len(plan_reads["s1"]) < MaxPlanReads
    /\ plan_reads' = [plan_reads EXCEPT
                         !["s1"] = Append(@, getenv_skip(skip_approval))]
    /\ UNCHANGED <<runVars, regVars, gateVars, metricVars, logVars, pureVars, ui_pc, other_pc>>

\* run_agent_async returns and the view deletes the variable
ClearFlag ==
    /\ ui_pc = "running"
    /\ plan_reads["s1"] # <<>>
    /\ skip_approval' = FALSE
    /\ ui_pc' = "idle"
    /\ UNCHANGED <<variant, max_iterations, pc, iteration, context, plan, result,
                   response, sessions, agent_result, plan_calls, plan_trace,
                   executed, approval_seen, terminal_trace, last_call, escaped,
                   regVars, gateVars, metricVars, logVars, pureVars, other_pc, plan_reads>>

\* the run of the other session starts
OtherStart ==
    /\ other_pc = "idle"
    /\ other_pc' = "running"
    /\ UNCHANGED <<runVars, regVars, gateVars, metricVars, logVars, pureVars, ui_pc, plan_reads>>

\* a PLAN phase of the other session's run reads the variable
OtherPlan ==
    /\ other_pc = "running"
    /\ Len(plan_reads["s2"]) < MaxPlanReads
    /\ plan_reads' = [plan_reads EXCEPT
                         !["s2"] = Append(@, getenv_skip(skip_approval))]
    /\ UNCHANGED <<runVars, regVars, gateVars, metricVars, logVars, pureVars, ui_pc, other_pc>>

OtherReturns ==
    /\ other_pc = "running"
    /\ plan_reads["s2"] # <<>>
    /\ other_pc' = "done"
    /\ UNCHANGED <<runVars, regVars, gateVars, metricVars, logVars, pureVars, ui_pc, plan_reads>>

NextApproval ==
    \/ GrantApproval
    \/ ApprovedPlan
    \/ ClearFlag
    \/ OtherStart
    \/ OtherPlan
    \/ OtherReturns

SpecApproval == InitApproval /\ [][NextApproval]_vars

\* --------------------------------------- RAGASMetrics.evaluate_all, by task
\* what single_turn_ascore of one metric does: a value or an exception
MetricOutcomes ==
    {[met |-> "raises", v |-> 0]} \cup {[met |-> "value", v |-> v] : v \in ScoreValues}

\* a fallback of 0.0 for a metric that raised
_evaluate_metric_zero(o) == IF o.met = "raises" THEN 0 ELSE o.v

\* _evaluate_faithfulness / _context_precision / _context_recall:
\* float(score), or 0.75 when the metric raised
_evaluate_metric(o) == IF o.met = "raises" THEN 75 ELSE o.v

InitMetrics ==
    /\ RunIdle
    /\ RegistryIdle
    /\ GateIdle
    /\ AuxIdle

\* evaluate_all up to asyncio.gather: placeholders when RAGAS is missing
\* or the sample cannot be built, else the three tasks are started
EvaluateAll ==
    /\ metrics_call.pc = "idle"
    /\ \E start \in {"unavailable", "sample_failed", "gather"} :
          metrics_call' =
              IF start = "gather"
              THEN [metrics_call EXCEPT !.pc = "gather"]
              ELSE [metrics_call EXCEPT !.pc = "returned",
                                        !.scores = _placeholder_scores]
    /\ UNCHANGED <<runVars, regVars, gateVars, logVars, pureVars, apprVars>>

\* one of the three tasks runs to its end, in any order
MetricTask ==
    /\ metrics_call.pc = "gather"
    /\ \E m \in RequiredMetrics, o \in MetricOutcomes :
          /\ metrics_call.tasks[m].state = "pending"
          /\ metrics_call' =
                [metrics_call EXCEPT !.tasks[m] =
                    [state |-> "done", met |-> o.met, v |-> o.v,
                     result |-> _evaluate_metric(o)]]
    /\ UNCHANGED <<runVars, regVars, gateVars, logVars, pureVars, apprVars>>

\* gather returns when the three tasks are done: the score dict and its
\* average
Join ==
    /\ metrics_call.pc = "gather"
    /\ \A m \in RequiredMetrics : metrics_call.tasks[m].state = "done"
    /\ LET r == [m \in RequiredMetrics |-> metrics_call.tasks[m].result]
       IN metrics_call' =
             [metrics_call EXCEPT
                 !.pc = "returned",
                 !.scores = Scores(r["faithfulness"], r["context_precision"],
                                   r["context_recall"],
                                   Average(r["faithfulness"], r["context_precision"],
                                           r["context_recall"]))]
    /\ UNCHANGED <<runVars, regVars, gateVars, logVars, pureVars, apprVars>>

NextMetrics ==
    \/ EvaluateAll
    \/ MetricTask
    \/ Join

SpecMetrics == InitMetrics /\ [][NextMetrics]_vars

\* ================================================================== claims
TerminalStatuses ==
    {"completed", "needs_clarification", "needs_approval", "timeout", "failed"}

ValidActionTypes == {"TOOL_CALL", "COMPLETE", "CLARIFY", "PLAN_APPROVAL"}

\* C1: a run takes exactly one terminal transition: never a second one, and
\* a returned run has taken one, whose status (one of the five) is the
\* status of the result and of the session.
C1_ExactlyOneTerminal ==
    /\ Len(terminal_trace) <= 1
    /\ pc = "done" =>
          /\ Len(terminal_trace) = 1
          /\ agent_result.status = terminal_trace[1]
          /\ agent_result.status \in TerminalStatuses
          /\ sessions[Sid].status = agent_result.status
    /\ pc # "done" => (terminal_trace = <<>> /\ agent_result = NoResult)

C1_Witness ==
    /\ pc = "done"
    /\ agent_result.status = "timeout"
    /\ Len(terminal_trace) = 1

\* C2: no exception leaves run(): an exception that reaches the body of
\* run() (here: attribute access on a plan that is not an object, or the
\* failing fallback of the partial-result synthesis) ends in a returned
\* result of status failed with output {error}.
C2_NeverRaises ==
    /\ ~escaped
    /\ pc # "raised"
    /\ (pc \notin {"plan", "dispatch"} /\ plan.kind = "nondict") =>
          /\ pc = "done"
          /\ agent_result.status = "failed"
          /\ agent_result.output = [error |-> "text"]

C2_Witness ==
    /\ pc = "done"
    /\ agent_result.status = "failed"
    /\ plan.kind = "nondict"
    /\ ~escaped

\* C3: the number of PLAN invocations of a run never exceeds max_iterations.
C3_PlanBound == plan_calls <= max_iterations

C3_Witness ==
    /\ pc = "timeout"
    /\ plan_calls = max_iterations
    /\ max_iterations = MaxIterBound

\* no plan returned so far had a terminal action type
NeverResolved ==
    \A i \in 1..Len(plan_trace) :
        plan_trace[i] \notin {"COMPLETE", "CLARIFY", "PLAN_APPROVAL"}

\* C4: a returned run whose plans never resolved to COMPLETE, CLARIFY or
\* PLAN_APPROVAL has status timeout after exactly max_iterations PLAN
\* invocations, with iteration_count = max_iterations.
C4_TimeoutAfterN ==
    (pc = "done" /\ NeverResolved) =>
        /\ agent_result.status = "timeout"
        /\ plan_calls = max_iterations
        /\ agent_result.iteration_count = max_iterations

\* C5: the implementation of an approval-requiring tool is entered by the
\* loop only when the skip-approval signal is set.
C5_ApprovalBeforeWebSearch ==
    \A t \in executed : RequiresApproval(t) => skip_approval

\* C6: once PLAN has returned a PLAN_APPROVAL plan, the run returns in that
\* iteration with status needs_approval and the approval output, without
\* ACT for that plan.
C6_ApprovalReturns ==
    (plan.kind = "dict" /\ ActionType = "PLAN_APPROVAL" /\ pc # "dispatch") =>
        /\ pc = "done"
        /\ agent_result.status = "needs_approval"
        /\ agent_result.iteration_count = iteration
        /\ agent_result.output =
              [research_plan |-> Get(plan.d, "research_plan", EmptyDict),
               type |-> "plan_approval_needed",
               message |-> "Web search requires your approval"]

\* C7: with the skip-approval signal set the run never ends with status
\* needs_approval.
C7_SkipHonoured ==
    skip_approval => (agent_result.status # "needs_approval" /\ ~approval_seen)

\* C8: when the LLM call or the parsing of its reply fails in PLAN, plan()
\* hands run() a COMPLETE plan carrying the error, and the run returns in
\* that iteration with status completed and that output.
C8_PlanFailureCompletes ==
    response \in {"llm", "parse"} =>
        /\ pc \in {"dispatch", "done"}
        /\ ~escaped
        /\ plan.kind = "dict"
        /\ ActionType = "COMPLETE"
        /\ "error" \in DOMAIN Get(plan.d, "output", EmptyDict)
        /\ pc = "done" =>
              /\ agent_result.status = "completed"
              /\ agent_result.output = plan.d["output"]
              /\ agent_result.iteration_count = plan_calls

C8_Witness ==
    /\ pc = "done"
    /\ response = "parse"
    /\ agent_result.status = "completed"
    /\ plan_calls = 2

\* the plan held by run() does not validate as an AgentPlan
InvalidPlan ==
    \/ plan.kind = "nondict"
    \/ plan.kind = "dict" /\ ActionType \notin ValidActionTypes

\* C9: a PLAN reply that parses but does not validate as an AgentPlan ends
\* the run in that iteration with status completed and an error output.
C9_InvalidPlanCompletes ==
    (InvalidPlan /\ pc # "dispatch") =>
        /\ pc = "done"
        /\ agent_result.status = "completed"
        /\ "error" \in DOMAIN agent_result.output

\* a call of execute_tool that failed
CallFailed ==
    \/ last_call.tool \notin RegisteredTools
    \/ last_call.outcome \in {"inner_error", "exception"}

TerminalPhase(status) ==
    CASE status \in {"completed", "timeout"} -> "COMPLETE"
      [] status = "needs_clarification" -> "CLARIFY"
      [] status = "needs_approval" -> "PLAN_APPROVAL"
      [] OTHER -> "ERROR"

\* C12: the logs of a returned AgentResult are the logs of the run's
\* session, and their last entry is the terminal entry of the result's
\* status: COMPLETE for completed and timeout (the latter with content
\* status timeout), CLARIFY for needs_clarification, PLAN_APPROVAL for
\* needs_approval, ERROR for failed.
C12_TerminalEntryLogged ==
    pc = "done" =>
        LET logs == agent_result.logs
        IN /\ logs = sessions[Sid].logs
           /\ Len(logs) >= 1
           /\ logs[Len(logs)].phase = TerminalPhase(agent_result.status)
           /\ agent_result.status = "timeout" =>
                 Get(logs[Len(logs)].content, "status", "") = "timeout"
           /\ agent_result.status = "failed" =>
                 "error" \in DOMAIN logs[Len(logs)].content

C12_Witness ==
    /\ pc = "done"
    /\ agent_result.status = "needs_approval"
    /\ agent_result.logs[Len(agent_result.logs)].phase = "PLAN_APPROVAL"
    /\ iteration = 2

\* C13: the output of a run that returned status timeout has
\* status = "partial".
C13_TimeoutStatusPartial ==
    (pc = "done" /\ agent_result.status = "timeout") =>
        Get(agent_result.output, "status", "None") = "partial"

\* the keys of the partial-digest shape
PartialDigestKeys ==
    {"warning", "insights", "recommendations", "missing", "assumptions", "sources"}

\* C14: the output of a run that returned status timeout has every key of
\* the partial-digest shape.
C14_TimeoutFullShape ==
    (pc = "done" /\ agent_result.status = "timeout") =>
        PartialDigestKeys \subseteq DOMAIN agent_result.output

\* C15 as stated: a failed result has output {error}, and no result of
\* another status has an error in its output.
C15_OnlyFailedHasError ==
    pc = "done" =>
        IF agent_result.status = "failed"
        THEN agent_result.output = [error |-> "text"]
        ELSE "error" \notin DOMAIN agent_result.output

\* C15 amended: a failed result has output {error}; a result of status
\* needs_clarification or needs_approval has no error in its output; a run
\* that completed on a failed PLAN has the error output of the synthetic
\* COMPLETE plan.
C15_ErrorPayloads ==
    pc = "done" =>
        /\ agent_result.status = "failed" =>
               agent_result.output = [error |-> "text"]
        /\ agent_result.status \in {"needs_clarification", "needs_approval"} =>
               "error" \notin DOMAIN agent_result.output
        /\ (agent_result.status = "completed" /\ response \in {"llm", "parse"}) =>
               /\ "error" \in DOMAIN agent_result.output
               /\ agent_result.output = FallbackPlan(variant).output

C15_Witness ==
    /\ pc = "done"
    /\ agent_result.status = "completed"
    /\ agent_result.output = [error |-> "Planning failed: text"]

\* C16: once PLAN has returned a COMPLETE plan in iteration i the run
\* returns in that iteration: status completed, the output of the plan
\* ({} when it has none), iteration_count = i, and no ACT, OBSERVE or
\* REFLECT entry of iteration i in the logs.
C16_CompleteReturnsSameIteration ==
    (plan.kind = "dict" /\ ActionType = "COMPLETE" /\ pc # "dispatch") =>
        /\ pc = "done"
        /\ agent_result.status = "completed"
        /\ agent_result.output = Get(plan.d, "output", EmptyDict)
        /\ agent_result.iteration_count = iteration
        /\ iteration = plan_calls
        /\ \A j \in 1..Len(agent_result.logs) :
              agent_result.logs[j].iteration = iteration =>
                 agent_result.logs[j].phase \notin {"ACT", "OBSERVE", "REFLECT"}

C16_Witness ==
    /\ pc = "done"
    /\ agent_result.status = "completed"
    /\ iteration = 2
    /\ agent_result.output = [insights |-> "list"]
    /\ \E j \in 1..Len(agent_result.logs) :
          agent_result.logs[j].phase = "REFLECT" /\ agent_result.logs[j].iteration = 1

\* C17 as stated: a call of apply_gate whose evaluations all fail the
\* threshold has made max_retries synthesizer calls and max_retries + 1
\* evaluations when it returns passed = False (2 and 3 for max_retries = 2).
C17_RetryCounts ==
    (gate_result.returned /\ ~gate_result.passed) =>
        /\ synth_calls = max_retries
        /\ eval_calls = max_retries + 1

\* C17 amended: the same counts, provided the elapsed time read at the
\* start of the last attempt did not exceed the timeout; when it did, the
\* call returned after as many evaluations and synthesizer calls as
\* retries had been made.
C17_RetryCountsUnlessTimeout ==
    (gate_result.returned /\ ~gate_result.passed) =>
        IF now - start_time > timeout_seconds
        THEN /\ eval_calls = retry_count
             /\ synth_calls = retry_count
             /\ retry_count <= max_retries
        ELSE /\ synth_calls = max_retries
             /\ eval_calls = max_retries + 1
             /\ retry_count = max_retries

C17_Witness ==
    /\ gate_result.returned
    /\ ~gate_result.passed
    /\ max_retries = 2
    /\ synth_calls = 2
    /\ eval_calls = 3

\* C18: when the elapsed time read at the start of an attempt exceeds the
\* timeout, apply_gate has returned the insights of that attempt with zero
\* scores and passed = False, with no evaluation and no synthesizer call in
\* that attempt, whether or not retries remain.
C18_TimeoutPrecedence ==
    now - start_time > timeout_seconds =>
        /\ gate_pc = "done"
        /\ gate_result = GateReturn(insights, ZeroScores, FALSE)
        /\ eval_calls = retry_count
        /\ synth_calls = retry_count

C18_Witness ==
    /\ gate_pc = "done"
    /\ now - start_time > timeout_seconds
    /\ retry_count = 1
    /\ max_retries = 2
    /\ gate_result.scores = ZeroScores

\* C19: a call that has evaluated max_retries + 1 times without passing
\* has returned the insights of the last synthesizer call (the original
\* ones for max_retries = 0), the scores of the evaluation of exactly
\* those insights, and passed = False.
C19_ExhaustedReturnsLast ==
    (gate_result.returned /\ ~gate_result.passed /\ eval_calls = max_retries + 1) =>
        /\ gate_result.insights = insights
        /\ insights.gen = synth_calls
        /\ synth_calls = max_retries
        /\ evaluated = gate_result.insights
        /\ gate_result.scores = scores
        /\ ~passes_quality_gate(gate_result.scores, min_score)

C19_Witness ==
    /\ gate_result.returned
    /\ ~gate_result.passed
    /\ max_retries = 2
    /\ eval_calls = 3
    /\ gate_result.insights.gen = 2
    /\ gate_result.scores = Scores(75, 69, 75, 73)

\* C20: apply_gate returns passed = True exactly when the scores it returns
\* are the evaluation of the insights it returns and faithfulness,
\* context_precision and context_recall are all >= min_score; then the
\* insights and scores are those of that evaluation and no synthesizer
\* call followed it.
C20_PassedIffAllMet ==
    gate_result.returned =>
        /\ gate_result.passed <=>
              /\ evaluated = gate_result.insights
              /\ gate_result.scores = scores
              /\ \A metric \in RequiredMetrics :
                    Ge(Get(gate_result.scores, metric, 0), min_score)
        /\ gate_result.passed =>
              /\ gate_result.insights = insights
              /\ synth_calls = retry_count
              /\ eval_calls = retry_count + 1

\* C21: execute() of a registered name enters the tool's execute only after
\* validate_input returned True; input that validate_input rejects (or on
\* which it raises) gives ToolValidationError with execute not entered; an
\* exception of the tool's execute comes out as ToolExecutionError, and
\* nothing else is raised.
C21_ValidateBeforeExecute ==
    (reg_call.op = "execute" /\ reg_call.tool \in Keys(_tools)) =>
        /\ "execute" \in reg_call.entered =>
              /\ "validate_input" \in reg_call.entered
              /\ reg_call.valid = "True"
        /\ reg_call.valid # "True" =>
              /\ reg_call.raised = "ToolValidationError"
              /\ "execute" \notin reg_call.entered
        /\ ("execute" \in reg_call.entered /\ reg_call.value # "result") =>
              reg_call.raised = "ToolExecutionError"
        /\ reg_call.value = "result" => reg_call.raised = "none"

C21_Witness ==
    /\ reg_call.op = "execute"
    /\ reg_call.tool \in Keys(_tools)
    /\ reg_call.valid = "False"
    /\ reg_call.raised = "ToolValidationError"
    /\ reg_call.entered = {"validate_input"}

\* C22: with two session ids used in any interleaving of start_session,
\* log and complete_session, each session holds exactly the entries and
\* the status issued for it: every entry and every output in a session
\* names that session as its issuer, and a session id that was never
\* started has no session.
C22_NoCrossContamination ==
    \A sid \in SessionIds :
        IF issued[sid].started
        THEN /\ sid \in DOMAIN sessions
             /\ sessions[sid].logs = issued[sid].logs
             /\ sessions[sid].status = issued[sid].status
             /\ \A i \in 1..Len(sessions[sid].logs) :
                   sessions[sid].logs[i].content = [owner |-> sid]
             /\ "output" \in DOMAIN sessions[sid] =>
                   sessions[sid].output = [owner |-> sid]
        ELSE sid \notin DOMAIN sessions

C22_Witness ==
    /\ DOMAIN sessions = SessionIds
    /\ Len(sessions["s1"].logs) = 2
    /\ Len(sessions["s2"].logs) = 2
    /\ sessions["s1"].status = "completed"
    /\ sessions["s2"].status = "running"
    /\ sessions["s1"].logs[1].phase # sessions["s2"].logs[1].phase

\* the base score the statement gives for a number of results, in hundredths
ClaimedBase(n) ==
    IF n = 0 THEN 0
    ELSE IF n \in 1..2 THEN 40
    ELSE IF n \in 3..4 THEN 60
    ELSE IF n \in 5..9 THEN 80
    ELSE 100

\* C23: the confidence score of (db_results_count, gaps) is
\* max(0.0, base - 0.15 * gaps) to 2 decimals, base being 0.0 for 0 results,
\* 0.4 for 1-2, 0.6 for 3-4, 0.8 for 5-9 and 1.0 for 10 or more; in
\* particular (0,1) gives 0.0, (5,0) gives 0.8, (10,1) gives 0.85 and
\* (3,2) gives 0.3.
C23_ConfidenceScore ==
    pure_call.fn = "_calculate_confidence_score" =>
        LET n == pure_call.x
            g == pure_call.y
            d == ClaimedBase(n) - 15 * g
        IN  /\ pure_call.score = (IF d > 0 THEN d ELSE 0)
            /\ (n = 0 /\ g = 1) => pure_call.score = 0
            /\ (n = 5 /\ g = 0) => pure_call.score = 80
            /\ (n = 10 /\ g = 1) => pure_call.score = 85
            /\ (n = 3 /\ g = 2) => pure_call.score = 30

C23_Witness ==
    /\ pure_call.fn = "_calculate_confidence_score"
    /\ pure_call.x = 0
    /\ pure_call.y = 1
    /\ pure_call.score = 0

\* the level the statement gives an average, 5 = excellent .. 1 = poor
ClaimedLevel(avg) ==
    IF avg >= 90 THEN 5
    ELSE IF avg >= 80 THEN 4
    ELSE IF avg >= 70 THEN 3
    ELSE IF avg >= 60 THEN 2
    ELSE 1

\* C24: the badge a digest carries separates the averages into the five
\* levels >= 0.90, >= 0.80, >= 0.70, >= 0.60 and below: another average
\* gets the same badge exactly when it lies in the same level.
C24_DigestBadgeFiveLevels ==
    pure_call.fn = "_determine_quality_badge" =>
        \A a \in AverageValues :
            (_determine_quality_badge(a) = pure_call.badge)
                <=> (ClaimedLevel(a) = ClaimedLevel(pure_call.x))

\* the tool call of the current iteration's ACT failed: the name is not
\* registered, or the implementation raised (bad arguments included)
ActFailed ==
    /\ plan.kind = "dict"
    /\ ActionType = "TOOL_CALL"
    /\ \/ last_call.raised
       \/ last_call.outcome = "exception"

LastLog == sessions[Sid].logs[Len(sessions[Sid].logs)]

LoopPhases == {"SENSE", "PLAN", "ACT", "OBSERVE", "REFLECT"}

\* entry b may directly follow entry a in the log of one run; ACT leaves
\* no entry when it skips an action that is not a tool call, and the
\* entries of a terminal handler end the log after any phase
PhaseFollows(a, b) ==
    IF b.phase \notin LoopPhases
    THEN TRUE
    ELSE CASE a.phase = "SENSE" ->
                 b.phase = "PLAN" /\ b.iteration = a.iteration
           [] a.phase = "PLAN" ->
                 b.phase \in {"ACT", "OBSERVE"} /\ b.iteration = a.iteration
           [] a.phase = "ACT" ->
                 b.phase = "OBSERVE" /\ b.iteration = a.iteration
           [] a.phase = "OBSERVE" ->
                 b.phase = "REFLECT" /\ b.iteration = a.iteration
           [] a.phase = "REFLECT" ->
                 b.phase = "PLAN" /\ b.iteration = a.iteration + 1
           [] OTHER -> FALSE

\* C26: the phases of a run are entered one after the other in the order
\* SENSE (iteration 1 only), then PLAN, ACT, OBSERVE, REFLECT in every
\* iteration: each phase starts with its predecessor's entry as the last
\* one logged, and PLAN of iteration i+1 starts only after the REFLECT
\* entry of iteration i.
C26_PhaseOrder ==
    pc \notin {"idle", "raised"} =>
        LET logs == sessions[Sid].logs
        IN  /\ \A k \in 1..Len(logs) :
                  /\ logs[k].phase = "SENSE" => (k = 1 /\ logs[k].iteration = 1)
                  /\ k = 1 => logs[k].phase = "SENSE"
                  /\ k > 1 => PhaseFollows(logs[k - 1], logs[k])
            /\ pc = "sense" => (logs = <<>> /\ iteration = 1)
            /\ pc = "plan" =>
                  IF iteration = 1
                  THEN Len(logs) = 1
                  ELSE /\ LastLog.phase = "REFLECT"
                       /\ LastLog.iteration = iteration - 1
            /\ pc = "dispatch" =>
                  (LastLog.phase = "PLAN" /\ LastLog.iteration = iteration)
            /\ pc = "observe" =>
                  (LastLog.phase \in {"PLAN", "ACT"} /\ LastLog.iteration = iteration)
            /\ pc = "reflect" =>
                  (LastLog.phase = "OBSERVE" /\ LastLog.iteration = iteration)
            /\ (pc \in {"loop", "timeout"} /\ iteration >= 1) =>
                  (LastLog.phase = "REFLECT" /\ LastLog.iteration = iteration)

C26_Witness ==
    /\ pc = "loop"
    /\ iteration = 2
    /\ Len(sessions[Sid].logs) = 9
    /\ sessions[Sid].logs[1].phase = "SENSE"
    /\ sessions[Sid].logs[6].phase = "PLAN"
    /\ sessions[Sid].logs[6].iteration = 2
    /\ sessions[Sid].logs[9].phase = "REFLECT"

\* C27: the run of a session for which no approval was given reads the
\* skip-approval signal as not set in every one of its PLAN phases, also
\* while the approved run of another session is in progress.
C27_SignalPrivate ==
    \A i \in 1..Len(plan_reads["s2"]) : plan_reads["s2"][i] = "false"

\* C28: when the get-user-context call of SENSE fails, the SENSE entry of
\* the log records the error, the context handed to PLAN is the one SENSE
\* received (it has no user_context entry), and the run is at PLAN with no
\* result returned.
C28_SenseFailureLeavesContext ==
    (pc = "plan" /\ iteration = 1 /\ last_call.tool = "get-user-context"
     /\ last_call.outcome = "exception") =>
        /\ "user_context" \notin DOMAIN context
        /\ LastLog.phase = "SENSE"
        /\ "error" \in DOMAIN LastLog.content
        /\ agent_result.status = "none"

\* the text reflect() returns when its LLM call or the reading of the
\* reply raised: "Error in reflection: " followed by the error
FallbackReflection == "Error in reflection: text"

\* C29: when producing the reflection failed, the run is not ended: the
\* REFLECT entry carries the error and the fallback text, that text is
\* the last_reflection and the reflection of the iteration's entry in
\* iteration_history, and control is back at the loop test with no result
\* returned.
C29_ReflectFailureContinues ==
    (pc = "loop" /\ iteration >= 1 /\ "error" \in DOMAIN LastLog.content) =>
        LET history == context["iteration_history"]
        IN  /\ LastLog.phase = "REFLECT"
            /\ LastLog.content.fallback = FallbackReflection
            /\ context["last_reflection"] = FallbackReflection
            /\ Len(history) = iteration
            /\ history[iteration].iteration = iteration
            /\ history[iteration].reflection = FallbackReflection
            /\ agent_result.status = "none"
            /\ ~escaped

C29_Witness ==
    /\ pc = "loop"
    /\ iteration = 1
    /\ max_iterations = 2
    /\ "error" \in DOMAIN LastLog.content
    /\ Len(context["iteration_history"]) = 1
    /\ context["iteration_history"][1].reflection = FallbackReflection
    /\ context["last_reflection"] = FallbackReflection
    /\ agent_result.status = "none"

C31_RetryParametersInvariant ==
    gate_pc # "idle" =>
        /\ start_time = first_call.start_time
        /\ \A i \in 1..Len(synth_args) :
              /\ synth_args[i].stricter
              /\ synth_args[i].retrieved_chunks = "retrieved_chunks"
              /\ synth_args[i].num_insights = first_call.n

\* C32: apply_gate called with a non-empty draft and answering
\* passed = False returns a non-empty list of insights.
C32_NonEmptyInsightsReturned ==
    (gate_result.returned /\ ~gate_result.passed /\ first_call.n > 0) =>
        gate_result.insights.n > 0

\* C33: when the evaluation behind the gate's answer computed no metric
\* (the metrics backend is unavailable, or the metric evaluation failed as
\* a whole), the answer is not passed = True.
C33_NoMetricNoPass ==
    (gate_result.returned /\ gate_result.passed) =>
        eval_kind \notin {"unavailable", "metrics_failed"}

\* C34: the three metric tasks finish in any order and are joined; the
\* score vector returned has all three metrics and the average, a metric
\* whose evaluation raised has the score 0.75, and every other metric has
\* the score its own evaluation computed.
C34_PerMetricFallback ==
    (metrics_call.pc = "returned"
     /\ \A m \in RequiredMetrics : metrics_call.tasks[m].state = "done") =>
        /\ DOMAIN metrics_call.scores = RequiredMetrics \cup {"average"}
        /\ \A m \in RequiredMetrics :
              metrics_call.scores[m] =
                  IF metrics_call.tasks[m].met = "raises"
                  THEN 75
                  ELSE metrics_call.tasks[m].v

C34_Witness ==
    /\ metrics_call.pc = "returned"
    /\ metrics_call.tasks["faithfulness"].met = "raises"
    /\ metrics_call.tasks["context_precision"].met = "value"
    /\ metrics_call.tasks["context_precision"].v = 69
    /\ metrics_call.scores["faithfulness"] = 75
    /\ metrics_call.scores["context_precision"] = 69

HandlerPhases == {"COMPLETE", "CLARIFY", "PLAN_APPROVAL", "ERROR"}

C36_ApprovalHasSearches ==
    (pc = "done" /\ agent_result.status = "needs_approval") =>
        /\ "research_plan" \in DOMAIN agent_result.output
        /\ Get(agent_result.output.research_plan, "proposed_searches", 0) >= 1

\* C37: OBSERVE records status success for a ToolResult whose success flag
\* is true, whatever its error field holds, and failed for one whose
\* success flag is false.
C37_ObserveBySuccessFlag ==
    pure_call.fn = "observe" =>
        pure_call.badge = (IF pure_call.x = 1 THEN "success" ELSE "failed")

SpecPhases ==
    {"SENSE", "PLAN", "ACT", "OBSERVE", "REFLECT", "COMPLETE", "CLARIFY",
     "PLAN_APPROVAL", "ERROR"}

\* C38: every entry appended to the session of a run has one of the nine
\* phases SENSE, PLAN, ACT, OBSERVE, REFLECT, COMPLETE, CLARIFY,
\* PLAN_APPROVAL, ERROR.
C38_PhasesClosed ==
    Sid \in DOMAIN sessions =>
        \A k \in 1..Len(sessions[Sid].logs) :
            sessions[Sid].logs[k].phase \in SpecPhases

\* C39: a digest whose quality gate did not pass carries the
\* below-threshold badge.
C39_FailedDigestBadge ==
    (digest.built /\ ~digest.quality_passed) =>
        digest.quality_badge = "Below threshold"

====
